---- MODULE Spec2Model ----
(***************************************************************************)
(* Model of plots.py: the depression "need vs capacity" analysis script.   *)
(*                                                                         *)
(* Numbers are fixed point: a value v of the script is the integer 100*v   *)
(* (hundredths), so 1.0 is 100 and eps = 0.05 is 5.  A quotient is kept    *)
(* as the pair <<numerator, denominator>> and compared by cross            *)
(* multiplication, i.e. in exact arithmetic.  Years are integers.          *)
(* A missing value (pandas NaN) is the marker NaN.                         *)
(***************************************************************************)
EXTENDS Integers, Sequences, FiniteSets, TLC

VARIABLES
    csv,              \* the input files as pd.read_csv returns them
    macro,            \* main: macro = load_ihme(IHME_MACRO)
    micro,            \* main: micro = load_ihme(IHME_MICRO)
    need_all,         \* main: need_all = load_ihme(IHME_ALL)
    psy,              \* main: psy = load_psychiatrists(PSY_FILE)
    psy_argsort,      \* order in which the platform's argsort returns the capacity years
    pc,               \* position of the run / of the call under study
    charts,           \* chart files written so far, in order of plt.savefig
    actionable_year,  \* value returned by choose_actionable_year
    merged,           \* joined records of plot_actionable
    top,              \* shortlist of plot_actionable
    err               \* the ValueError that ended the run, or NoError

vars == <<csv, macro, micro, need_all, psy, psy_argsort, pc, charts,
          actionable_year, merged, top, err>>

-----------------------------------------------------------------------------
(* Values                                                                  *)

NaN == -999999
NoYear == NaN
Scale == 100
One == 100

Min(a, b) == IF a <= b THEN a ELSE b

RECURSIVE SetToSortedSeq(_)
\* sorted(list(S)) for a set of integers
SetToSortedSeq(S) ==
    IF S = {} THEN <<>>
    ELSE LET m == CHOOSE x \in S : \A y \in S : x <= y
         IN  <<m>> \o SetToSortedSeq(S \ {m})

Head_(s, n) == SubSeq(s, 1, Min(n, Len(s)))

Range(s) == {s[i] : i \in DOMAIN s}

BoundedSeq(S, n) == UNION {[1..k -> S] : k \in 0..n}

\* a cell of a numeric column as read from the file
NumCell(n) == [kind |-> "num", v |-> n]
TextCell == [kind |-> "text", v |-> 0]

\* pd.to_numeric(..., errors="coerce")
to_numeric(cell) == IF cell.kind = "num" THEN cell.v ELSE NaN

\* x * k on a possibly missing number
Times(x, k) == IF x = NaN THEN NaN ELSE x * k

-----------------------------------------------------------------------------
(* Metric labels, as character sequences                                   *)

NoLabel == <<>>
LabelPercent == <<"P", "e", "r", "c", "e", "n", "t">>
LabelPERCENT == <<"P", "E", "R", "C", "E", "N", "T">>
LabelRate == <<"R", "a", "t", "e">>
PatternPercent == <<"P", "e", "r", "c", "e", "n", "t">>

Lower(c) ==
    CASE c = "P" -> "p" [] c = "E" -> "e" [] c = "R" -> "r" [] c = "C" -> "c"
      [] c = "N" -> "n" [] c = "T" -> "t" [] OTHER -> c

LowerStr(s) == [i \in DOMAIN s |-> Lower(s[i])]

\* astype(str): a missing label prints as "nan"
astype_str(m) == IF m = NoLabel THEN <<"n", "a", "n">> ELSE m

\* Series.str.contains(pat, case=False)
str_contains(s, pat) ==
    \E i \in 0..(Len(s) - Len(pat)) :
        SubSeq(LowerStr(s), i + 1, i + Len(pat)) = LowerStr(pat)

-----------------------------------------------------------------------------
(* load_ihme                                                               *)

\* df["value"].max(): the largest non-missing value, NaN when there is none
value_max(rows) ==
    LET vals == {rows[i].value : i \in DOMAIN rows} \ {NaN}
    IN  IF vals = {} THEN NaN ELSE CHOOSE m \in vals : \A v \in vals : v <= m

\* rename + to_numeric (lines 30-44)
ihme_typed(file) ==
    [i \in DOMAIN file.rows |->
        LET r == file.rows[i]
        IN  [location |-> r.location_name,
             sex      |-> r.sex_name,
             metric   |-> r.metric_name,
             year     |-> to_numeric(r.year),
             value    |-> to_numeric(r.val),
             upper    |-> IF "upper" \in file.columns THEN to_numeric(r.upper) ELSE NaN,
             lower    |-> IF "lower" \in file.columns THEN to_numeric(r.lower) ELSE NaN]]

\* defective variant of is_fractional: the bound 1.0 itself is taken as a percentage
is_fractional_below_one(file, rows) ==
    /\ "metric_name" \in file.columns
    /\ \E i \in DOMAIN rows : str_contains(astype_str(rows[i].metric), PatternPercent)
    /\ value_max(rows) # NaN
    /\ value_max(rows) < One

\* the condition of lines 45-47
is_fractional(file, rows) ==
    /\ "metric_name" \in file.columns
    /\ \E i \in DOMAIN rows : str_contains(astype_str(rows[i].metric), PatternPercent)
    /\ value_max(rows) # NaN
    /\ value_max(rows) <= One

\* defective variant of load_ihme: the decision is taken row by row
load_ihme_per_row(file) ==
    LET rows == ihme_typed(file)
    IN  [i \in DOMAIN rows |->
            IF /\ "metric_name" \in file.columns
               /\ str_contains(astype_str(rows[i].metric), PatternPercent)
               /\ rows[i].value # NaN
               /\ rows[i].value <= One
            THEN [rows[i] EXCEPT !.value = Times(@, Scale),
                                 !.upper = Times(@, Scale),
                                 !.lower = Times(@, Scale)]
            ELSE rows[i]]

load_ihme(file) ==
    LET rows == ihme_typed(file)
    IN  IF is_fractional(file, rows)
        THEN [i \in DOMAIN rows |->
                [rows[i] EXCEPT !.value = Times(@, Scale),
                                !.upper = Times(@, Scale),
                                !.lower = Times(@, Scale)]]
        ELSE rows

-----------------------------------------------------------------------------
(* Specification SpecNorm: load_ihme applied to one input file             *)

MaxNormRows == 2

NoError == [kind |-> "none"]
EmptyFile == [columns |-> {}, rows |-> <<>>]
NoFiles == [macro |-> EmptyFile, micro |-> EmptyFile, all |-> EmptyFile, psy |-> <<>>]

NormLabels == {LabelPercent, LabelPERCENT, LabelRate}
NormValues == {TextCell, NumCell(-50), NumCell(50), NumCell(100), NumCell(150)}

NormRows(columns) ==
    [location_name : {"Singapore"},
     sex_name      : {"Both"},
     metric_name   : IF "metric_name" \in columns THEN NormLabels ELSE {NoLabel},
     year          : {NumCell(2020)},
     val           : NormValues,
     upper         : IF "upper" \in columns THEN {TextCell, NumCell(150)} ELSE {TextCell},
     lower         : IF "lower" \in columns THEN {NumCell(25)} ELSE {TextCell}]

NormFiles ==
    UNION {[columns : {c}, rows : BoundedSeq(NormRows(c), MaxNormRows)] :
              c \in SUBSET {"metric_name", "upper", "lower"}}

InitNorm ==
    /\ csv \in {[NoFiles EXCEPT !.macro = f] : f \in NormFiles}
    /\ macro = <<>>
    /\ micro = <<>>
    /\ need_all = <<>>
    /\ psy = <<>>
    /\ psy_argsort = <<>>
    /\ pc = "ready"
    /\ charts = <<>>
    /\ actionable_year = NoYear
    /\ merged = <<>>
    /\ top = <<>>
    /\ err = NoError

CallLoadIhme ==
    /\ pc = "ready"
    /\ macro' = load_ihme(csv.macro)
    /\ pc' = "returned"
    /\ UNCHANGED <<csv, micro, need_all, psy, psy_argsort, charts,
                   actionable_year, merged, top, err>>

NextNorm == CallLoadIhme

SpecNorm == InitNorm /\ [][NextNorm]_vars

\* the collection's inputs, as the claims speak of them
NormIn == csv.macro.rows
NormInValue(i) == to_numeric(NormIn[i].val)
NormInUpper(i) == to_numeric(NormIn[i].upper)
NormInLower(i) == to_numeric(NormIn[i].lower)

\* "flagged as fractional": a metric label contains "percent" and the maximum value is <= 1.0
FlaggedFractional ==
    /\ \E i \in DOMAIN NormIn : NormIn[i].metric_name \in {LabelPercent, LabelPERCENT}
    /\ \E i \in DOMAIN NormIn : NormInValue(i) # NaN
    /\ \A i \in DOMAIN NormIn : NormInValue(i) # NaN => NormInValue(i) <= One

\* C7 as stated: in a collection flagged as fractional every output value is
\* 100 times its input and lies in [0, 100], whatever the input value is.
C7_Original ==
    (pc = "returned" /\ FlaggedFractional) =>
        \A i \in DOMAIN macro :
            /\ macro[i].value = Times(NormInValue(i), Scale)
            /\ macro[i].value # NaN
            /\ 0 <= macro[i].value
            /\ macro[i].value <= 100 * Scale

\* C7 amended: in a collection flagged as fractional every output value is 100
\* times its input (a missing input stays missing), no output exceeds 100, and
\* the output lies in [0, 100] whenever the input is present and not negative.
C7_Scaled ==
    (pc = "returned" /\ FlaggedFractional) =>
        \A i \in DOMAIN macro :
            /\ macro[i].value = Times(NormInValue(i), Scale)
            /\ NormInValue(i) = NaN => macro[i].value = NaN
            /\ NormInValue(i) # NaN => macro[i].value <= 100 * Scale
            /\ (NormInValue(i) # NaN /\ NormInValue(i) >= 0) =>
                   (0 <= macro[i].value /\ macro[i].value <= 100 * Scale)

C7_Witness ==
    /\ pc = "returned"
    /\ FlaggedFractional
    /\ \E i \in DOMAIN macro : NormInValue(i) = One /\ macro[i].value = 100 * Scale
    /\ \E i \in DOMAIN macro : NormInValue(i) # NaN /\ NormInValue(i) < 0 /\ macro[i].value < 0

\* C8: a collection that is not flagged comes out unchanged, and in every case
\* one factor (1 or 100) is applied to value, lower and upper of all rows.
C8_OneFactor ==
    pc = "returned" =>
        /\ Len(macro) = Len(NormIn)
        /\ \E k \in {1, Scale} :
              /\ ~FlaggedFractional => k = 1
              /\ \A i \in DOMAIN macro :
                    /\ macro[i].value = Times(NormInValue(i), k)
                    /\ "upper" \in csv.macro.columns => macro[i].upper = Times(NormInUpper(i), k)
                    /\ "lower" \in csv.macro.columns => macro[i].lower = Times(NormInLower(i), k)

C8_Witness ==
    /\ pc = "returned"
    /\ FlaggedFractional
    /\ {"upper", "lower"} \subseteq csv.macro.columns
    /\ \E i, j \in DOMAIN macro :
          /\ NormIn[i].metric_name = LabelRate
          /\ NormIn[j].metric_name = LabelPercent
          /\ NormInValue(i) = One
          /\ NormInValue(j) = 50
          /\ macro[i].value = 100 * Scale
          /\ macro[i].upper = 150 * Scale

-----------------------------------------------------------------------------
(* choose_actionable_year                                                  *)

PreviewLen == 10

\* set(df["year"].dropna().unique().astype(int))
year_set(rows) == {rows[i].year : i \in DOMAIN rows} \ {NaN}

\* psy.dropna(subset=["psy_per100k"])
dropna_psy(rows) == SelectSeq(rows, LAMBDA r : r.psy_per100k # NaN)

\* .groupby("year")["location"].nunique(): one entry per non-missing year of
\* the rows that are left, the number of distinct locations of that year
psy_counts(rows) ==
    LET kept == dropna_psy(rows)
    IN  [y \in year_set(kept) |->
            Cardinality({kept[i].location : i \in {j \in DOMAIN kept : kept[j].year = y}})]

RECURSIVE descending_orders(_, _)
\* the sequences that list each element of S once, by descending key
descending_orders(S, key) ==
    IF S = {} THEN {<<>>}
    ELSE LET first == {x \in S : \A y \in S : key[y] <= key[x]}
         IN  UNION {{<<x>> \o o : o \in descending_orders(S \ {x}, key)} : x \in first}

\* .sort_values(ascending=False) with the default kind "quicksort": the index
\* comes out by descending count; the sort is not stable, so years of equal
\* count come out in an order the platform's sort decides
argsort_outcomes(counts) == descending_orders(DOMAIN counts, counts)

no_overlap_error(need_rows, psy_rows) ==
    [kind        |-> "NoOverlap",
     ihme_years  |-> Head_(SetToSortedSeq(year_set(need_rows)), PreviewLen),
     psych_years |-> Head_(SetToSortedSeq(year_set(psy_rows)), PreviewLen)]

\* defective variant of choose_actionable_year: with no candidate the best covered
\* capacity year is returned instead of raising
choose_actionable_year_fallback(need_rows, psy_rows, order) ==
    LET need_years == year_set(need_rows)
        candidates == SelectSeq(order, LAMBDA y : y \in need_years)
    IN  IF candidates = <<>>
        THEN IF order = <<>>
             THEN [raised |-> TRUE, year |-> NoYear, error |-> no_overlap_error(need_rows, psy_rows)]
             ELSE [raised |-> FALSE, year |-> order[1], error |-> NoError]
        ELSE [raised |-> FALSE, year |-> candidates[1], error |-> NoError]

\* order: the index of psy_counts after sort_values
choose_actionable_year(need_rows, psy_rows, order) ==
    LET need_years == year_set(need_rows)
        candidates == SelectSeq(order, LAMBDA y : y \in need_years)
    IN  IF candidates = <<>>
        THEN [raised |-> TRUE, year |-> NoYear, error |-> no_overlap_error(need_rows, psy_rows)]
        ELSE [raised |-> FALSE, year |-> candidates[1], error |-> NoError]

-----------------------------------------------------------------------------
(* Specification SpecYear: choose_actionable_year applied to two frames    *)

MaxNeedRows == 2
MaxPsyRows == 2
MaxWide == 11

NeedRow(loc, y, v) ==
    [location |-> loc, sex |-> "Both", metric |-> LabelPercent, year |-> y,
     value |-> v, upper |-> NaN, lower |-> NaN]
PsyRow(loc, y, v) == [location |-> loc, year |-> y, psy_per100k |-> v]

YearNeedFrames ==
    BoundedSeq({NeedRow("Brazil", y, 2000) : y \in {NaN, 2015, 2018, 2019}}, MaxNeedRows)
YearPsyFrames ==
    BoundedSeq({PsyRow(loc, y, v) : loc \in {"Brazil", "India"}, y \in {NaN, 2018, 2019},
                                    v \in {NaN, 100}}, MaxPsyRows)

\* n rows of consecutive years from base, ascending or descending
WideYears(base, n, up) == [i \in 1..n |-> IF up THEN base + i - 1 ELSE base + n - i]
WideNeedFrames ==
    {[i \in 1..n |-> NeedRow("Brazil", WideYears(1990, n, up)[i], 2000)] :
        n \in 0..MaxWide, up \in BOOLEAN}
\* many capacity years, of which only the first k carry a value
WidePsyFrames ==
    {[i \in 1..n |-> PsyRow("Brazil", WideYears(base, n, up)[i],
                            IF WideYears(base, n, up)[i] < base + k THEN 100 ELSE NaN)] :
        n \in 0..MaxWide, up \in BOOLEAN, base \in {1995, 2010}, k \in 0..2}

InitYear ==
    /\ \/ need_all \in YearNeedFrames /\ psy \in YearPsyFrames
       \/ need_all \in WideNeedFrames /\ psy \in WidePsyFrames
    /\ psy_argsort \in argsort_outcomes(psy_counts(psy))
    /\ csv = NoFiles
    /\ macro = <<>>
    /\ micro = <<>>
    /\ pc = "ready"
    /\ charts = <<>>
    /\ actionable_year = NoYear
    /\ merged = <<>>
    /\ top = <<>>
    /\ err = NoError

CallChooseYear ==
    /\ pc = "ready"
    /\ LET r == choose_actionable_year(need_all, psy, psy_argsort)
       IN  /\ pc' = IF r.raised THEN "raised" ELSE "returned"
           /\ actionable_year' = r.year
           /\ err' = r.error
    /\ UNCHANGED <<csv, macro, micro, need_all, psy, psy_argsort, charts, merged, top>>

NextYear == CallChooseYear

SpecYear == InitYear /\ [][NextYear]_vars

\* the two year sets and the coverage of a year, as the claims speak of them
NeedYearSet == {need_all[i].year : i \in DOMAIN need_all} \ {NaN}
CapacityYearSet == {psy[i].year : i \in DOMAIN psy} \ {NaN}
BothYearSet == NeedYearSet \cap CapacityYearSet
Coverage(y) ==
    Cardinality({psy[i].location : i \in {j \in DOMAIN psy :
                    psy[j].year = y /\ psy[j].psy_per100k # NaN}})
YearCallOver == pc \in {"returned", "raised"}

\* C1 as stated: whenever a year is in both year sets the call returns a year
\* of both sets, one of highest capacity coverage among the years of both sets,
\* also when a year of both sets has only missing capacity values.
C1_Original ==
    (YearCallOver /\ BothYearSet # {}) =>
        /\ pc = "returned"
        /\ actionable_year \in BothYearSet
        /\ \A y \in BothYearSet : Coverage(y) <= Coverage(actionable_year)

\* C2 as stated: among the years of both sets that tie on coverage with the
\* returned one, the returned year is the smallest.
C2_Original ==
    pc = "returned" =>
        \A y \in BothYearSet :
            Coverage(y) = Coverage(actionable_year) => actionable_year <= y

IsPreviewOf(p, S) ==
    /\ Len(p) = Min(PreviewLen, Cardinality(S))
    /\ \A i \in DOMAIN p : p[i] \in S
    /\ \A i, j \in DOMAIN p : i < j => p[i] < p[j]
    /\ \A y \in S : (\A i \in DOMAIN p : p[i] # y) => \A i \in DOMAIN p : p[i] < y

\* C3: with no capacity year among the need years the call raises the
\* no-overlap error and returns no year; the error carries, for each year
\* set, its at most 10 smallest years in ascending order; a returned year is
\* always a need year.
C3_NoOverlap ==
    YearCallOver =>
        /\ BothYearSet = {} =>
              /\ pc = "raised"
              /\ actionable_year = NoYear
              /\ err.kind = "NoOverlap"
        /\ pc = "raised" =>
              /\ err.kind = "NoOverlap"
              /\ actionable_year = NoYear
              /\ IsPreviewOf(err.ihme_years, NeedYearSet)
              /\ IsPreviewOf(err.psych_years, CapacityYearSet)
        /\ pc = "returned" => (actionable_year \in NeedYearSet /\ err = NoError)

C3_Witness ==
    /\ pc = "raised"
    /\ BothYearSet = {}
    /\ Cardinality(NeedYearSet) > PreviewLen
    /\ Cardinality(CapacityYearSet) > PreviewLen
    /\ need_all[1].year > need_all[2].year
    /\ \E i \in DOMAIN psy : psy[i].psy_per100k # NaN
    /\ Len(err.ihme_years) = PreviewLen
    /\ Len(err.psych_years) = PreviewLen

-----------------------------------------------------------------------------
(* plot_micro_age_sex                                                      *)

MICRO_LOCATIONS == <<"Singapore", "United States of America">>
MICRO_YEAR == 2020

Plot2 == "plot2_micro_age_sex_profiles.png"

\* lines 113-114: the rows of the year and the locations that carry a value
micro_sub(df_micro, year, locations) ==
    SelectSeq(df_micro, LAMBDA r : /\ r.year = year
                                   /\ r.location \in Range(locations)
                                   /\ r.value # NaN)

\* lines 115-143: raises when the rows lack one of the sexes, else writes the chart
plot_micro_age_sex(df_micro, year, locations) ==
    LET sub == micro_sub(df_micro, year, locations)
        sexes == {sub[i].sex : i \in DOMAIN sub}
    IN  IF ~("Male" \in sexes /\ "Female" \in sexes)
        THEN [raised |-> TRUE, error |-> [kind |-> "MissingSexSplit", sexes |-> sexes],
              saved |-> <<>>]
        ELSE [raised |-> FALSE, error |-> NoError, saved |-> <<Plot2>>]

-----------------------------------------------------------------------------
(* Specification SpecMicro: plot_micro_age_sex applied to one frame        *)

MaxMicroRows == 2

MicroRow(loc, y, sex, v) ==
    [location |-> loc, sex |-> sex, metric |-> LabelPercent, year |-> y,
     value |-> v, upper |-> NaN, lower |-> NaN]

MicroFrames ==
    BoundedSeq({MicroRow(loc, y, sex, v) :
                   loc \in {"Singapore", "United States of America", "Japan"},
                   y \in {2019, 2020}, sex \in {"Male", "Female", "Both"},
                   v \in {NaN, 500}}, MaxMicroRows)

InitMicro ==
    /\ micro \in MicroFrames
    /\ csv = NoFiles
    /\ macro = <<>>
    /\ need_all = <<>>
    /\ psy = <<>>
    /\ psy_argsort = <<>>
    /\ pc = "ready"
    /\ charts = <<>>
    /\ actionable_year = NoYear
    /\ merged = <<>>
    /\ top = <<>>
    /\ err = NoError

CallPlotMicro ==
    /\ pc = "ready"
    /\ LET r == plot_micro_age_sex(micro, MICRO_YEAR, MICRO_LOCATIONS)
       IN  /\ pc' = IF r.raised THEN "raised" ELSE "returned"
           /\ err' = r.error
           /\ charts' = charts \o r.saved
    /\ UNCHANGED <<csv, macro, micro, need_all, psy, psy_argsort,
                   actionable_year, merged, top>>

NextMicro == CallPlotMicro

SpecMicro == InitMicro /\ [][NextMicro]_vars

\* the sexes a requested location has at the requested year, among its rows with a value
SexesOf(loc) ==
    {micro[i].sex : i \in {j \in DOMAIN micro :
        micro[j].location = loc /\ micro[j].year = MICRO_YEAR /\ micro[j].value # NaN}}

\* C9 as stated: the missing-sex-split error is raised, and no micro chart is
\* written, whenever some requested location lacks "Male" or lacks "Female",
\* also when the other requested locations supply the missing sex.
C9_Original ==
    (pc \in {"returned", "raised"}
        /\ \E loc \in Range(MICRO_LOCATIONS) : ~({"Male", "Female"} \subseteq SexesOf(loc))) =>
        /\ pc = "raised"
        /\ err.kind = "MissingSexSplit"
        /\ charts = <<>>

-----------------------------------------------------------------------------
(* plot_actionable                                                         *)

Eps == 5
TopN == 15

Plot3Scatter == "plot3_actionable_need_vs_capacity_scatter.png"
Plot3Bar == "plot3_actionable_priority_index_top13.png"

\* lines 148-149
need_of_year(need_rows, year) ==
    SelectSeq(need_rows, LAMBDA r : r.year = year /\ r.value # NaN)

\* lines 150-151
psy_of_year(psy_rows, year) ==
    SelectSeq(psy_rows, LAMBDA r : r.year = year /\ r.psy_per100k # NaN)

RECURSIVE Concat(_)
Concat(ss) == IF ss = <<>> THEN <<>> ELSE Head(ss) \o Concat(Tail(ss))

\* need_y.merge(psy_y, on=["location", "year"], how="inner"): the pairs of
\* rows of equal location and year, in the order of the left rows
inner_merge(need_y, psy_y) ==
    Concat([i \in DOMAIN need_y |->
        LET n == need_y[i]
            right == SelectSeq(psy_y, LAMBDA r : r.location = n.location /\ r.year = n.year)
        IN  [j \in DOMAIN right |->
                [location |-> n.location, year |-> n.year,
                 dep_prev |-> n.value, psy_per100k |-> right[j].psy_per100k]]])

\* defective variant of joined: capacity values of 0 and below are kept
joined_any_capacity(need_rows, psy_rows, year) ==
    inner_merge(need_of_year(need_rows, year), psy_of_year(psy_rows, year))

\* lines 148-154: the joined records of the year
joined(need_rows, psy_rows, year) ==
    SelectSeq(inner_merge(need_of_year(need_rows, year), psy_of_year(psy_rows, year)),
              LAMBDA m : m.dep_prev # NaN /\ m.psy_per100k # NaN /\ m.psy_per100k > 0)

\* defective variant of priority_index: the ratio is taken the wrong way round
priority_index_inverted(dep_prev, psy_per100k) ==
    [num |-> psy_per100k, den |-> dep_prev + Eps]

\* line 177: dep_prev / (psy_per100k + eps), as numerator and denominator
priority_index(dep_prev, psy_per100k) ==
    [num |-> dep_prev, den |-> psy_per100k + Eps]

\* comparison of two quotients with positive denominators
QLess(a, b) == a.num * b.den < b.num * a.den
QEqual(a, b) == a.num * b.den = b.num * a.den

with_priority_index(rows) ==
    [i \in DOMAIN rows |->
        [location |-> rows[i].location, year |-> rows[i].year,
         dep_prev |-> rows[i].dep_prev, psy_per100k |-> rows[i].psy_per100k,
         priority_index |-> priority_index(rows[i].dep_prev, rows[i].psy_per100k)]]

RECURSIVE descending_row_orders(_, _)
\* the orders of the row positions S by descending priority_index
descending_row_orders(S, rows) ==
    IF S = {} THEN {<<>>}
    ELSE LET first == {x \in S : \A y \in S :
                          ~QLess(rows[x].priority_index, rows[y].priority_index)}
         IN  UNION {{<<x>> \o o : o \in descending_row_orders(S \ {x}, rows)} : x \in first}

\* merged.sort_values("priority_index", ascending=False) with the default
\* kind "quicksort": rows of equal priority_index come out in an order the
\* platform's sort decides
sort_outcomes(rows) == descending_row_orders(DOMAIN rows, rows)

\* .head(15) of the rows taken in the given order
head_of(rows, order) == [k \in 1..Min(TopN, Len(order)) |-> rows[order[k]]]

-----------------------------------------------------------------------------
(* Specification SpecPrio: plot_actionable applied to two frames and a year *)

MaxLocs == 2
MaxRank == 16

Countries ==
    <<"Argentina", "Brazil", "Canada", "Denmark", "Egypt", "France", "Germany",
      "India", "Japan", "Kenya", "Mexico", "Nigeria", "Peru", "Qatar",
      "Singapore", "Turkey", "United States of America", "Vietnam">>

NoEntry == <<NaN, NaN>>

\* what a location may have in the need file: nothing, or one row <<year, value>>
NeedEntries == {NoEntry, <<2020, NaN>>, <<2020, -1000>>, <<2020, 0>>, <<2020, 1000>>,
                <<2020, 2000>>, <<2019, 2000>>}
\* what a location may have in the capacity file
PsyEntries == {NoEntry, <<2020, NaN>>, <<2020, -100>>, <<2020, 0>>, <<2020, 100>>,
               <<2020, 1000>>, <<2019, 100>>}

\* position i of n, counted from the front or from the back
Pos(i, n, up) == IF up THEN i ELSE n + 1 - i

NeedFrameOf(entries, up) ==
    Concat([i \in DOMAIN entries |->
        LET k == Pos(i, Len(entries), up)
        IN  IF entries[k] = NoEntry THEN <<>>
            ELSE <<NeedRow(Countries[k], entries[k][1], entries[k][2])>>])

PsyFrameOf(entries, up) ==
    Concat([i \in DOMAIN entries |->
        LET k == Pos(i, Len(entries), up)
        IN  IF entries[k] = NoEntry THEN <<>>
            ELSE <<PsyRow(Countries[k], entries[k][1], entries[k][2])>>])

PrioNeedFrames ==
    {NeedFrameOf(e, up) : e \in BoundedSeq(NeedEntries, MaxLocs), up \in BOOLEAN}
PrioPsyFrames ==
    {PsyFrameOf(e, TRUE) : e \in BoundedSeq(PsyEntries, MaxLocs)}

\* n locations of one year; the value of location i follows a pattern
RankValue(pattern, i) ==
    CASE pattern = "same"   -> 1000
      [] pattern = "rising" -> 100 * i
      [] pattern = "pairs"  -> 100 * ((i + 1) \div 2)
      [] pattern = "alt"    -> IF i % 2 = 1 THEN 100 ELSE 200
\* the <<need pattern, capacity pattern>> pairs in use: at most two records tie
RankPatterns ==
    {<<"same", "rising">>, <<"same", "pairs">>, <<"rising", "same">>,
     <<"rising", "rising">>, <<"pairs", "alt">>}
RankNeedFrame(n, up, pattern) ==
    [i \in 1..n |-> NeedRow(Countries[Pos(i, n, up)], 2020, RankValue(pattern, Pos(i, n, up)))]
RankPsyFrame(n, pattern) ==
    [i \in 1..n |-> PsyRow(Countries[i], 2020, RankValue(pattern, i))]
RankFrames ==
    {<<RankNeedFrame(n, up, p[1]), RankPsyFrame(n, p[2])>> :
        n \in 0..MaxRank, up \in BOOLEAN, p \in RankPatterns}

InitPrio ==
    /\ \/ need_all \in PrioNeedFrames /\ psy \in PrioPsyFrames
       \/ \E f \in RankFrames : need_all = f[1] /\ psy = f[2]
    /\ psy_argsort = <<>>
    /\ csv = NoFiles
    /\ macro = <<>>
    /\ micro = <<>>
    /\ pc = "ready"
    /\ charts = <<>>
    /\ actionable_year = NoYear
    /\ merged = <<>>
    /\ top = <<>>
    /\ err = NoError

CallPlotActionable ==
    /\ pc = "ready"
    /\ \E year \in {2019, 2020} :
          LET rows == with_priority_index(joined(need_all, psy, year))
          IN  \E order \in sort_outcomes(rows) :
                 /\ actionable_year' = year
                 /\ merged' = rows
                 /\ top' = head_of(rows, order)
    /\ charts' = charts \o <<Plot3Scatter, Plot3Bar>>
    /\ pc' = "returned"
    /\ UNCHANGED <<csv, macro, micro, need_all, psy, psy_argsort, err>>

NextPrio == CallPlotActionable

SpecPrio == InitPrio /\ [][NextPrio]_vars

\* C4: every joined record pairs a need row of the chosen year that carries a
\* value with a capacity row of the same location and year whose value is
\* present and greater than 0.
C4_InnerJoin ==
    pc = "returned" =>
        \A k \in DOMAIN merged :
            /\ merged[k].year = actionable_year
            /\ \E i \in DOMAIN need_all :
                  /\ need_all[i].location = merged[k].location
                  /\ need_all[i].year = actionable_year
                  /\ need_all[i].value # NaN
                  /\ need_all[i].value = merged[k].dep_prev
            /\ \E j \in DOMAIN psy :
                  /\ psy[j].location = merged[k].location
                  /\ psy[j].year = actionable_year
                  /\ psy[j].psy_per100k # NaN
                  /\ psy[j].psy_per100k > 0
                  /\ psy[j].psy_per100k = merged[k].psy_per100k

\* a location with a need row of the chosen year and a capacity row of 0 or
\* less is left out, next to a location that is joined
C4_Witness ==
    /\ pc = "returned"
    /\ Len(merged) = 1
    /\ \E i \in DOMAIN need_all, j \in DOMAIN psy :
          /\ need_all[i].location = psy[j].location
          /\ need_all[i].year = actionable_year
          /\ psy[j].year = actionable_year
          /\ need_all[i].value # NaN
          /\ psy[j].psy_per100k # NaN
          /\ psy[j].psy_per100k < 0
          /\ \A k \in DOMAIN merged : merged[k].location # psy[j].location

LocIndex(loc) == CHOOSE i \in DOMAIN Countries : Countries[i] = loc

\* C5 as stated: the shortlist holds the first min(15, n) joined records by
\* descending priority_index, records of equal priority_index by ascending
\* location.
C5_Original ==
    pc = "returned" =>
        /\ Len(top) = Min(TopN, Len(merged))
        /\ \A k \in 1..(Len(top) - 1) :
              \/ QLess(top[k + 1].priority_index, top[k].priority_index)
              \/ /\ QEqual(top[k].priority_index, top[k + 1].priority_index)
                 /\ LocIndex(top[k].location) <= LocIndex(top[k + 1].location)

\* C6 as stated: among the joined records priority_index strictly falls as
\* capacity rises at equal need, need 0 included, and strictly rises as need
\* rises at equal capacity.
C6_Original ==
    pc = "returned" =>
        \A a, b \in DOMAIN merged :
            /\ (merged[a].dep_prev = merged[b].dep_prev
                    /\ merged[a].psy_per100k < merged[b].psy_per100k) =>
                   QLess(merged[b].priority_index, merged[a].priority_index)
            /\ (merged[a].psy_per100k = merged[b].psy_per100k
                    /\ merged[a].dep_prev < merged[b].dep_prev) =>
                   QLess(merged[a].priority_index, merged[b].priority_index)

\* C6 amended: priority_index strictly falls as capacity rises at equal need
\* when that need is greater than 0, is 0 whatever the capacity when the need
\* is 0 (and strictly rises with capacity when the need is below 0), and
\* strictly rises as need rises at equal capacity.
C6_Monotone ==
    pc = "returned" =>
        \A a, b \in DOMAIN merged :
            /\ (merged[a].dep_prev = merged[b].dep_prev
                    /\ merged[a].dep_prev > 0
                    /\ merged[a].psy_per100k < merged[b].psy_per100k) =>
                   QLess(merged[b].priority_index, merged[a].priority_index)
            /\ (merged[a].dep_prev = merged[b].dep_prev
                    /\ merged[a].dep_prev < 0
                    /\ merged[a].psy_per100k < merged[b].psy_per100k) =>
                   QLess(merged[a].priority_index, merged[b].priority_index)
            /\ (merged[a].dep_prev = 0 /\ merged[b].dep_prev = 0) =>
                   QEqual(merged[a].priority_index, merged[b].priority_index)
            /\ (merged[a].psy_per100k = merged[b].psy_per100k
                    /\ merged[a].dep_prev < merged[b].dep_prev) =>
                   QLess(merged[a].priority_index, merged[b].priority_index)

C6_Witness ==
    /\ pc = "returned"
    /\ \E a, b, c \in DOMAIN merged :
          /\ merged[a].dep_prev = 200 /\ merged[b].dep_prev = 200 /\ merged[c].dep_prev = 100
          /\ merged[a].psy_per100k = 100 /\ merged[b].psy_per100k = 200
          /\ merged[c].psy_per100k = 100
          /\ QLess(merged[b].priority_index, merged[a].priority_index)
          /\ QLess(merged[c].priority_index, merged[a].priority_index)

-----------------------------------------------------------------------------
(* load_psychiatrists, plot_macro_trend                                    *)

MACRO_LOCATIONS ==
    <<"Singapore", "United States of America", "India", "Brazil", "Japan", "World">>

Plot1 == "plot1_macro_depression_trend.png"

\* rename + to_numeric + the three columns kept (lines 55-64)
load_psychiatrists(rows) ==
    [i \in DOMAIN rows |->
        [location    |-> rows[i].Entity,
         year        |-> to_numeric(rows[i].Year),
         psy_per100k |-> to_numeric(rows[i].psychiatrists)]]

\* lines 96-109: the rows drawn (one line per location), and the chart written
plot_macro_trend(df_macro, locations) ==
    [drawn |-> SelectSeq(df_macro, LAMBDA r : /\ r.location \in Range(locations)
                                              /\ r.year # NaN
                                              /\ r.value # NaN),
     saved |-> <<Plot1>>]

-----------------------------------------------------------------------------
(* Specification SpecMain: one run of main                                 *)

IhmeCsvRow(loc, sex, y, v) ==
    [location_name |-> loc, sex_name |-> sex, metric_name |-> LabelPercent,
     year |-> NumCell(y), val |-> v, upper |-> TextCell, lower |-> TextCell]
IhmeCsv(rows) == [columns |-> {"metric_name"}, rows |-> rows]
PsyCsvRow(loc, y, v) == [Entity |-> loc, Year |-> NumCell(y), psychiatrists |-> v]

MainMacroFiles ==
    {IhmeCsv(<<>>),
     IhmeCsv(<<IhmeCsvRow("Singapore", "Both", 2019, NumCell(4)),
               IhmeCsvRow("Singapore", "Both", 2020, NumCell(5))>>)}
MainMicroFiles ==
    {IhmeCsv(<<>>),
     IhmeCsv(<<IhmeCsvRow("Singapore", "Both", 2020, NumCell(5))>>),
     IhmeCsv(<<IhmeCsvRow("Singapore", "Male", 2020, NumCell(4)),
               IhmeCsvRow("Singapore", "Female", 2020, TextCell)>>),
     IhmeCsv(<<IhmeCsvRow("Singapore", "Male", 2020, NumCell(4)),
               IhmeCsvRow("Singapore", "Female", 2020, NumCell(6))>>),
     IhmeCsv(<<IhmeCsvRow("Singapore", "Male", 2020, NumCell(4)),
               IhmeCsvRow("United States of America", "Female", 2020, NumCell(6))>>)}
MainAllFiles ==
    {IhmeCsv(<<>>),
     IhmeCsv(<<IhmeCsvRow("Brazil", "Both", 2015, NumCell(4))>>),
     IhmeCsv(<<IhmeCsvRow("Brazil", "Both", 2020, NumCell(4)),
               IhmeCsvRow("India", "Both", 2020, NumCell(5))>>),
     IhmeCsv(<<IhmeCsvRow("India", "Both", 2019, NumCell(5)),
               IhmeCsvRow("Brazil", "Both", 2020, NumCell(5))>>)}
MainPsyFiles ==
    {<<>>,
     <<PsyCsvRow("Brazil", 2018, NumCell(100))>>,
     <<PsyCsvRow("Brazil", 2020, TextCell)>>,
     <<PsyCsvRow("Brazil", 2020, NumCell(100)), PsyCsvRow("India", 2020, NumCell(0))>>,
     <<PsyCsvRow("India", 2019, NumCell(50)), PsyCsvRow("Brazil", 2020, NumCell(100))>>}

InitMain ==
    /\ csv \in [macro : MainMacroFiles, micro : MainMicroFiles,
                all : MainAllFiles, psy : MainPsyFiles]
    /\ psy_argsort \in argsort_outcomes(psy_counts(load_psychiatrists(csv.psy)))
    /\ macro = <<>>
    /\ micro = <<>>
    /\ need_all = <<>>
    /\ psy = <<>>
    /\ pc = "load"
    /\ charts = <<>>
    /\ actionable_year = NoYear
    /\ merged = <<>>
    /\ top = <<>>
    /\ err = NoError

\* lines 190-193
MainLoad ==
    /\ pc = "load"
    /\ macro' = load_ihme(csv.macro)
    /\ micro' = load_ihme(csv.micro)
    /\ need_all' = load_ihme(csv.all)
    /\ psy' = load_psychiatrists(csv.psy)
    /\ pc' = "macro"
    /\ UNCHANGED <<csv, psy_argsort, charts, actionable_year, merged, top, err>>

\* lines 194-198
MainPlotMacro ==
    /\ pc = "macro"
    /\ charts' = charts \o plot_macro_trend(macro, MACRO_LOCATIONS).saved
    /\ pc' = "micro"
    /\ UNCHANGED <<csv, macro, micro, need_all, psy, psy_argsort,
                   actionable_year, merged, top, err>>

\* defective variant of MainPlotMicro: the error is recorded and the run goes on
MainPlotMicroGoesOn ==
    /\ pc = "micro"
    /\ LET r == plot_micro_age_sex(micro, MICRO_YEAR, MICRO_LOCATIONS)
       IN  /\ err' = r.error
           /\ charts' = charts \o r.saved
    /\ pc' = "year"
    /\ UNCHANGED <<csv, macro, micro, need_all, psy, psy_argsort,
                   actionable_year, merged, top>>

\* lines 199-204: an error raised here ends the run
MainPlotMicro ==
    /\ pc = "micro"
    /\ LET r == plot_micro_age_sex(micro, MICRO_YEAR, MICRO_LOCATIONS)
       IN  /\ pc' = IF r.raised THEN "failed" ELSE "year"
           /\ err' = r.error
           /\ charts' = charts \o r.saved
    /\ UNCHANGED <<csv, macro, micro, need_all, psy, psy_argsort,
                   actionable_year, merged, top>>

\* line 205: an error raised here ends the run
MainChooseYear ==
    /\ pc = "year"
    /\ LET r == choose_actionable_year(need_all, psy, psy_argsort)
       IN  /\ pc' = IF r.raised THEN "failed" ELSE "scatter"
           /\ actionable_year' = r.year
           /\ err' = r.error
    /\ UNCHANGED <<csv, macro, micro, need_all, psy, psy_argsort, charts, merged, top>>

\* plot_actionable up to the first savefig (lines 148-175)
MainScatter ==
    /\ pc = "scatter"
    /\ merged' = joined(need_all, psy, actionable_year)
    /\ charts' = Append(charts, Plot3Scatter)
    /\ pc' = "bar"
    /\ UNCHANGED <<csv, macro, micro, need_all, psy, psy_argsort,
                   actionable_year, top, err>>

\* plot_actionable from there to its return (lines 176-187)
MainBar ==
    /\ pc = "bar"
    /\ LET rows == with_priority_index(merged)
       IN  \E order \in sort_outcomes(rows) :
              /\ merged' = rows
              /\ top' = head_of(rows, order)
    /\ charts' = Append(charts, Plot3Bar)
    /\ pc' = "report"
    /\ UNCHANGED <<csv, macro, micro, need_all, psy, psy_argsort,
                   actionable_year, err>>

\* lines 215-222: the summary is printed and main returns
MainReport ==
    /\ pc = "report"
    /\ pc' = "done"
    /\ UNCHANGED <<csv, macro, micro, need_all, psy, psy_argsort, charts,
                   actionable_year, merged, top, err>>

NextMain ==
    \/ MainLoad
    \/ MainPlotMacro
    \/ MainPlotMicro
    \/ MainChooseYear
    \/ MainScatter
    \/ MainBar
    \/ MainReport

SpecMain == InitMain /\ [][NextMain]_vars

\* the script is one sequential process: a run that can take its next step takes it
FairSpecMain == SpecMain /\ WF_vars(NextMain)

ChartOrder == <<Plot1, Plot2, Plot3Scatter, Plot3Bar>>
IsPrefix(a, b) == Len(a) <= Len(b) /\ SubSeq(b, 1, Len(a)) = a
Failed == err.kind # "none"

\* C10: the charts are written in the order macro, micro, scatter, bar, the
\* year is chosen after the micro chart and before the scatter; once a step
\* has raised, the run is over and no chart is written any more, while the
\* charts written before stay; a run in which nothing raises ends with all
\* four charts written.
C10_RunSequence ==
    /\ [](IsPrefix(charts, ChartOrder))
    /\ [](actionable_year # NoYear => Len(charts) >= 2)
    /\ [](Len(charts) >= 3 => actionable_year # NoYear)
    /\ [](Failed => pc = "failed")
    /\ [][Failed => (charts' = charts /\ pc' = pc)]_vars
    /\ [][IsPrefix(charts, charts')]_vars
    /\ <>(Failed \/ (pc = "done" /\ charts = ChartOrder))

C10_Witness ==
    /\ pc = "failed"
    /\ err.kind = "NoOverlap"
    /\ charts = <<Plot1, Plot2>>

====
